---- MODULE Spec2Model ----
(***************************************************************************)
(* Model of github.com/compose-spec/dotenv: Parse (line splitter),         *)
(* expandString (expansion engine) and EnvFile.Resolve (resolution         *)
(* driver).                                                                *)
(*                                                                         *)
(* A Go string is a sequence of one-character strings.  Indices are        *)
(* 1-based: Go index g is index g+1 here, and Go's "not found" -1 is 0.    *)
(* A Go error is a sequence of length <= 1: << >> is nil, <<m>> carries m. *)
(* A Go map is a function; EmptyMap is the empty map.                      *)
(***************************************************************************)
EXTENDS Integers, Sequences, FiniteSets, TLC

\* ------------------------------------------------------------------------
\* Strings and maps
\* ------------------------------------------------------------------------

EmptyMap == [k \in {} |-> << >>]

\* m[k] = v of a Go map
MapPut(m, k, v) == [x \in (DOMAIN m) \cup {k} |-> IF x = k THEN v ELSE m[x]]

\* a merge that drops the entries of the nested expansion
MapMergeKeepsOuter(m, nested) == m

\* for k, v := range nested { m[k] = v }
MapMerge(m, nested) ==
    [x \in (DOMAIN m) \cup (DOMAIN nested) |-> IF x \in DOMAIN nested THEN nested[x] ELSE m[x]]

\* s[from:] of Go, from being a 1-based index here
Tail0(s, from) == SubSeq(s, from, Len(s))

RECURSIVE IndexFrom(_, _, _)
IndexFrom(s, c, i) ==
    IF i > Len(s) THEN 0
    ELSE IF s[i] = c THEN i
    ELSE IndexFrom(s, c, i + 1)

\* strings.Index(s, c) for a one-character c
Index(s, c) == IndexFrom(s, c, 1)

\* strings.HasPrefix
HasPrefix(s, p) == Len(s) >= Len(p) /\ SubSeq(s, 1, Len(p)) = p

WhiteSpace == {" ", "\t", "\n", "\r"}

RECURSIVE TrimLeft(_)
TrimLeft(s) ==
    IF s # << >> /\ s[1] \in WhiteSpace THEN TrimLeft(Tail(s)) ELSE s

RECURSIVE TrimRight(_)
TrimRight(s) ==
    IF s # << >> /\ s[Len(s)] \in WhiteSpace THEN TrimRight(SubSeq(s, 1, Len(s) - 1)) ELSE s

\* strings.TrimSpace
TrimSpace(s) == TrimRight(TrimLeft(s))

UpperCase == {"A","B","C","D","E","F","G","H","I","J","K","L","M",
              "N","O","P","Q","R","S","T","U","V","W","X","Y","Z"}
LowerCase == {"a","b","c","d","e","f","g","h","i","j","k","l","m",
              "n","o","p","q","r","s","t","u","v","w","x","y","z"}
Digit == {"0","1","2","3","4","5","6","7","8","9"}

\* ------------------------------------------------------------------------
\* Expansion engine
\* ------------------------------------------------------------------------

isVarNameChar(c) == c \in UpperCase \cup LowerCase \cup Digit \cup {"_"}

RECURSIVE closingBraceFrom(_, _, _)
closingBraceFrom(value, i, depth) ==
    IF i > Len(value) THEN 0
    ELSE IF value[i] = "{" THEN closingBraceFrom(value, i + 1, depth + 1)
    ELSE IF value[i] = "}"
         THEN IF depth - 1 = 0 THEN i ELSE closingBraceFrom(value, i + 1, depth - 1)
    ELSE closingBraceFrom(value, i + 1, depth)

findClosingBrace(value, start) == closingBraceFrom(value, start, 1)

RECURSIVE operatorFrom(_, _, _, _)
operatorFrom(content, operator, i, depth) ==
    IF i > Len(content) THEN 0
    ELSE IF content[i] = "$" /\ i + 1 <= Len(content) /\ content[i + 1] = "{"
         THEN operatorFrom(content, operator, i + 2, depth + 1)
    ELSE IF content[i] = "}" /\ depth > 0
         THEN operatorFrom(content, operator, i + 1, depth - 1)
    ELSE IF /\ depth = 0
            /\ i + Len(operator) - 1 <= Len(content)
            /\ SubSeq(content, i, i + Len(operator) - 1) = operator
         THEN i
    ELSE operatorFrom(content, operator, i + 1, depth)

\* findOperator without the depth counter: the first occurrence anywhere
RECURSIVE findOperatorFlat(_, _)
findOperatorFlat(content, operator) ==
    IF Len(content) < Len(operator) THEN 0
    ELSE IF HasPrefix(content, operator) THEN 1
    ELSE LET r == findOperatorFlat(Tail(content), operator)
         IN  IF r = 0 THEN 0 ELSE r + 1

findOperator(content, operator) == operatorFrom(content, operator, 1, 0)

\* ": required variable is not set"
RequiredSuffix ==
    <<":"," ","r","e","q","u","i","r","e","d"," ","v","a","r","i","a","b","l","e",
      " ","i","s"," ","n","o","t"," ","s","e","t">>

\* the required-variable error that never carries the message of the reference
requiredErrorDefaultOnly(varName, errorMsg) == varName \o RequiredSuffix

\* fmt.Errorf("%s: required variable is not set", varName) / fmt.Errorf("%s", errorMsg)
requiredError(varName, errorMsg) ==
    IF errorMsg = << >> THEN varName \o RequiredSuffix ELSE errorMsg

\* return "", nil, err
Failed(msg) == [val |-> << >>, exp |-> EmptyMap, err |-> <<msg>>]

\* a lookup that misses a variable whose value is empty
FoundNonEmpty(vars, name) == name \in DOMAIN vars /\ vars[name].Value # << >>

\* lookup(name): ok
Found(vars, name) == name \in DOMAIN vars

\* the end of the run of name characters that starts at j
RECURSIVE nameEnd(_, _)
nameEnd(value, j) ==
    IF j <= Len(value) /\ isVarNameChar(value[j]) THEN nameEnd(value, j + 1) ELSE j

\* a scan that knows no escape
escapedDollarNever(value, i) == FALSE

\* value[i] == '\\' && i+1 < len(value) && value[i+1] == '$'
escapedDollar(value, i) == value[i] = "\\" /\ i + 1 <= Len(value) /\ value[i + 1] = "$"

RECURSIVE expandFrom(_, _, _, _, _)
RECURSIVE expandBraced(_, _, _)

\* expandString(value, lookup); the lookup is the table vars it closes over
expandString(value, vars) == expandFrom(value, 1, << >>, EmptyMap, vars)

\* The ${...} branch of expandString on the isolated content: what it writes
\* to result (val), the provenance map after it (exp), and the error.
expandBraced(content, expanded, vars) ==
    LET colonQuestionIdx == findOperator(content, <<":", "?">>)
        colonDashIdx     == findOperator(content, <<":", "-">>)
        colonPlusIdx     == findOperator(content, <<":", "+">>)
        questionIdx      == findOperator(content, <<"?">>)
        dashIdx          == findOperator(content, <<"-">>)
        plusIdx          == findOperator(content, <<"+">>)
        Emit(varName) ==
            [val |-> vars[varName].Value,
             exp |-> MapPut(expanded, varName, vars[varName].Location),
             err |-> << >>]
        Nothing == [val |-> << >>, exp |-> expanded, err |-> << >>]
        Default(text) ==
            LET n == expandString(text, vars)
            IN  IF n.err # << >> THEN Failed(n.err[1])
                ELSE [val |-> n.val, exp |-> MapMerge(expanded, n.exp), err |-> << >>]
        Replace(varName, text) ==
            LET n == expandString(text, vars)
            IN  IF n.err # << >> THEN Failed(n.err[1])
                ELSE [val |-> n.val,
                      exp |-> MapMerge(MapPut(expanded, varName, vars[varName].Location), n.exp),
                      err |-> << >>]
    IN
    IF colonQuestionIdx # 0 THEN
        LET varName  == SubSeq(content, 1, colonQuestionIdx - 1)
            errorMsg == Tail0(content, colonQuestionIdx + 2)
        IN  IF ~Found(vars, varName) \/ vars[varName].Value = << >>
            THEN Failed(requiredError(varName, errorMsg))
            ELSE Emit(varName)
    ELSE IF colonDashIdx # 0 THEN
        LET varName      == SubSeq(content, 1, colonDashIdx - 1)
            defaultValue == Tail0(content, colonDashIdx + 2)
        IN  IF Found(vars, varName) /\ vars[varName].Value # << >>
            THEN Emit(varName)
            ELSE Default(defaultValue)
    ELSE IF colonPlusIdx # 0 THEN
        LET varName     == SubSeq(content, 1, colonPlusIdx - 1)
            replacement == Tail0(content, colonPlusIdx + 2)
        IN  IF Found(vars, varName) /\ vars[varName].Value # << >>
            THEN Replace(varName, replacement)
            ELSE Nothing
    ELSE IF questionIdx # 0 THEN
        LET varName  == SubSeq(content, 1, questionIdx - 1)
            errorMsg == Tail0(content, questionIdx + 1)
        IN  IF ~Found(vars, varName)
            THEN Failed(requiredError(varName, errorMsg))
            ELSE Emit(varName)
    ELSE IF dashIdx # 0 THEN
        LET varName      == SubSeq(content, 1, dashIdx - 1)
            defaultValue == Tail0(content, dashIdx + 1)
        IN  IF Found(vars, varName)
            THEN Emit(varName)
            ELSE Default(defaultValue)
    ELSE IF plusIdx # 0 THEN
        LET varName     == SubSeq(content, 1, plusIdx - 1)
            replacement == Tail0(content, plusIdx + 1)
        IN  IF Found(vars, varName)
            THEN Replace(varName, replacement)
            ELSE Nothing
    ELSE IF Found(vars, content) THEN Emit(content)
    ELSE Nothing

\* The scanning loop of expandString from position i on.
expandFrom(value, i, result, expanded, vars) ==
    IF i > Len(value) THEN [val |-> result, exp |-> expanded, err |-> << >>]
    ELSE IF escapedDollar(value, i)
         THEN expandFrom(value, i + 2, result \o <<"$">>, expanded, vars)
    ELSE IF value[i] = "$" /\ i + 1 <= Len(value) THEN
        IF value[i + 1] = "{" THEN
            LET endIdx == findClosingBrace(value, i + 2)
            IN  IF endIdx # 0 THEN
                    LET b == expandBraced(SubSeq(value, i + 2, endIdx - 1), expanded, vars)
                    IN  IF b.err # << >> THEN Failed(b.err[1])
                        ELSE expandFrom(value, endIdx + 1, result \o b.val, b.exp, vars)
                ELSE expandFrom(value, i + 1, result \o <<value[i]>>, expanded, vars)
        ELSE IF isVarNameChar(value[i + 1]) THEN
            LET j       == nameEnd(value, i + 1)
                varName == SubSeq(value, i + 1, j - 1)
            IN  IF Found(vars, varName)
                THEN expandFrom(value, j, result \o vars[varName].Value,
                                MapPut(expanded, varName, vars[varName].Location), vars)
                ELSE expandFrom(value, j, result, expanded, vars)
        ELSE expandFrom(value, i + 1, result \o <<value[i]>>, expanded, vars)
    ELSE expandFrom(value, i + 1, result \o <<value[i]>>, expanded, vars)

\* ------------------------------------------------------------------------
\* Variable and the resolution driver
\* ------------------------------------------------------------------------

\* Location(fmt.Sprintf(":%d", lineNumber))
Location(lineNumber) == <<":", lineNumber>>

\* QuoteStyle: Unquoted, Quoted (single quotes), DoubleQuoted
QuoteStyle == {"Unquoted", "Quoted", "DoubleQuoted"}

\* an expansion that drops the error and leaves the variable as it is
expandValueSwallowsError(v, vars) ==
    LET r == expandString(v.RawValue, vars)
    IN  IF r.err # << >> THEN [v |-> v, err |-> << >>]
        ELSE [v |-> [v EXCEPT !.Value = r.val, !.Expanded = r.exp], err |-> << >>]

\* Variable.expandValue: the variable after the call, and the error
expandValue(v, vars) ==
    LET r == expandString(v.RawValue, vars)
    IN  IF r.err # << >> THEN [v |-> v, err |-> r.err]
        ELSE [v |-> [v EXCEPT !.Value = r.val, !.Expanded = r.exp], err |-> << >>]

\* a loop that expands the single-quoted values like the others
RECURSIVE expandLoopQuotedToo(_, _, _)
expandLoopQuotedToo(Vs, i, vars) ==
    IF i > Len(Vs) THEN [vs |-> Vs, err |-> << >>]
    ELSE
        LET r == expandValue(Vs[i], vars)
        IN  IF r.err # << >> THEN [vs |-> Vs, err |-> r.err]
            ELSE expandLoopQuotedToo([Vs EXCEPT ![i] = r.v], i + 1, MapPut(vars, r.v.Name, r.v))

\* a loop that puts a declaration into the table before it expands it
RECURSIVE expandLoopSelfVisible(_, _, _)
expandLoopSelfVisible(Vs, i, vars) ==
    IF i > Len(Vs) THEN [vs |-> Vs, err |-> << >>]
    ELSE IF Vs[i].Quoted = "Quoted" THEN
        LET v == [Vs[i] EXCEPT !.Value = Vs[i].RawValue]
        IN  expandLoopSelfVisible([Vs EXCEPT ![i] = v], i + 1, MapPut(vars, v.Name, v))
    ELSE
        LET self == [Vs[i] EXCEPT !.Value = Vs[i].RawValue]
            r    == expandValue(Vs[i], MapPut(vars, self.Name, self))
        IN  IF r.err # << >> THEN [vs |-> Vs, err |-> r.err]
            ELSE expandLoopSelfVisible([Vs EXCEPT ![i] = r.v], i + 1,
                                       MapPut(vars, r.v.Name, r.v))

\* The loop of EnvFile.expand from variable i on: the Variables slice as the
\* loop leaves it (it is updated in place) and the error.
RECURSIVE expandLoop(_, _, _)
expandLoop(Vs, i, vars) ==
    IF i > Len(Vs) THEN [vs |-> Vs, err |-> << >>]
    ELSE IF Vs[i].Quoted = "Quoted" THEN
        LET v == [Vs[i] EXCEPT !.Value = Vs[i].RawValue]
        IN  expandLoop([Vs EXCEPT ![i] = v], i + 1, MapPut(vars, v.Name, v))
    ELSE
        LET r == expandValue(Vs[i], vars)
        IN  IF r.err # << >> THEN [vs |-> Vs, err |-> r.err]
            ELSE expandLoop([Vs EXCEPT ![i] = r.v], i + 1, MapPut(vars, r.v.Name, r.v))

\* EnvFile.expand
expand(Vs) == expandLoop(Vs, 1, EmptyMap)

\* The result map Resolve builds: result[variable.Name] = variable.Value, in order
RECURSIVE resultFrom(_, _, _)
resultFrom(Vs, i, result) ==
    IF i > Len(Vs) THEN result
    ELSE resultFrom(Vs, i + 1, MapPut(result, Vs[i].Name, Vs[i].Value))

resultMap(Vs) == resultFrom(Vs, 1, EmptyMap)

\* ------------------------------------------------------------------------
\* Explain
\* ------------------------------------------------------------------------

\* the bytes of the valid names in ascending order, as sort.Strings compares them
AsciiOrder ==
    <<"-", ".", "0","1","2","3","4","5","6","7","8","9",
      "A","B","C","D","E","F","G","H","I","J","K","L","M",
      "N","O","P","Q","R","S","T","U","V","W","X","Y","Z", "_",
      "a","b","c","d","e","f","g","h","i","j","k","l","m",
      "n","o","p","q","r","s","t","u","v","w","x","y","z">>

Rank(c) == CHOOSE k \in 1..Len(AsciiOrder) : AsciiOrder[k] = c

\* a < b for Go strings
RECURSIVE StringLess(_, _)
StringLess(a, b) ==
    IF b = << >> THEN FALSE
    ELSE IF a = << >> THEN TRUE
    ELSE IF Head(a) = Head(b) THEN StringLess(Tail(a), Tail(b))
    ELSE Rank(Head(a)) < Rank(Head(b))

\* an order of the names that is not sorted: descending
RECURSIVE sortStringsDescending(_)
sortStringsDescending(names) ==
    IF names = {} THEN << >>
    ELSE LET m == CHOOSE x \in names : \A y \in names \ {x} : StringLess(y, x)
         IN  <<m>> \o sortStringsDescending(names \ {m})

\* sort.Strings(varNames), varNames being the keys of a map
RECURSIVE sortStrings(_)
sortStrings(names) ==
    IF names = {} THEN << >>
    ELSE LET m == CHOOSE x \in names : \A y \in names \ {x} : StringLess(x, y)
         IN  <<m>> \o sortStrings(names \ {m})

\* a search that does not stop at the first match
RECURSIVE firstNamedNoBreak(_, _, _)
firstNamedNoBreak(Vs, name, i) ==
    IF i > Len(Vs) THEN 0
    ELSE LET later == firstNamedNoBreak(Vs, name, i + 1)
         IN  IF later # 0 THEN later
             ELSE IF Vs[i].Name = name THEN i ELSE 0

\* the index of the first variable of that name, 0 when there is none
RECURSIVE firstNamed(_, _, _)
firstNamed(Vs, name, i) ==
    IF i > Len(Vs) THEN 0
    ELSE IF Vs[i].Name = name THEN i
    ELSE firstNamed(Vs, name, i + 1)

\* a table that keeps the value of the first declaration of a name
varMapKeepsFirst(Vs) ==
    [name \in { Vs[i].Name : i \in 1..Len(Vs) } |->
        Vs[CHOOSE i \in 1..Len(Vs) :
              Vs[i].Name = name /\ \A j \in 1..(i - 1) : Vs[j].Name # name].Value]

\* varMap[v.Name] = v.Value for every variable, in order
varMap(Vs) == resultFrom(Vs, 1, EmptyMap)

\* m[k] of a Go map: the zero value when k is missing
MapGet(m, k) == IF k \in DOMAIN m THEN m[k] ELSE << >>

NotFound == [found |-> FALSE, text |-> "Variable not found"]

\* EnvFile.Explain(name): the lines of the explanation, the contributor lines
\* "  - name=value at location" in the order they are written
explanation(Vs, name) ==
    LET idx == firstNamed(Vs, name, 1)
    IN  IF idx = 0 THEN NotFound
        ELSE
        LET variable == Vs[idx]
            varNames == sortStrings(DOMAIN variable.Expanded)
        IN  [found        |-> TRUE,
             Variable     |-> variable.Name,
             Location     |-> variable.Location,
             RawValue     |-> variable.RawValue,
             FinalValue   |-> variable.Value,
             ExpandedFrom |-> variable.Expanded # EmptyMap,
             lines        |-> [k \in 1..Len(varNames) |->
                                  [name  |-> varNames[k],
                                   value |-> MapGet(varMap(Vs), varNames[k]),
                                   at    |-> variable.Expanded[varNames[k]]]]]

\* ------------------------------------------------------------------------
\* expandString, one loop iteration at a time
\* ------------------------------------------------------------------------

\* a recursive call that is handed the whole reference again
callTextWhole(content, idx, n) == <<"$", "{">> \o content \o <<"}">>

\* content[idx+len(operator):], the text a recursive call is made on
callText(content, idx, n) == SubSeq(content, idx + n, Len(content))

\* What the ${...} branch does with the content, as far as the control flow
\* goes: return an error, call expandString on a text, or write and go on.
bracedStep(content, vars) ==
    LET colonQuestionIdx == findOperator(content, <<":", "?">>)
        colonDashIdx     == findOperator(content, <<":", "-">>)
        colonPlusIdx     == findOperator(content, <<":", "+">>)
        questionIdx      == findOperator(content, <<"?">>)
        dashIdx          == findOperator(content, <<"-">>)
        plusIdx          == findOperator(content, <<"+">>)
        varName(idx)     == SubSeq(content, 1, idx - 1)
        ok(idx)          == Found(vars, varName(idx))
        nonEmpty(idx)    == ok(idx) /\ vars[varName(idx)].Value # << >>
        Fail             == [kind |-> "fail", text |-> << >>]
        Write            == [kind |-> "write", text |-> << >>]
        Call(idx, n)     == [kind |-> "call", text |-> callText(content, idx, n)]
    IN  IF colonQuestionIdx # 0 THEN (IF nonEmpty(colonQuestionIdx) THEN Write ELSE Fail)
        ELSE IF colonDashIdx # 0
             THEN (IF nonEmpty(colonDashIdx) THEN Write ELSE Call(colonDashIdx, 2))
        ELSE IF colonPlusIdx # 0
             THEN (IF nonEmpty(colonPlusIdx) THEN Call(colonPlusIdx, 2) ELSE Write)
        ELSE IF questionIdx # 0 THEN (IF ok(questionIdx) THEN Write ELSE Fail)
        ELSE IF dashIdx # 0 THEN (IF ok(dashIdx) THEN Write ELSE Call(dashIdx, 1))
        ELSE IF plusIdx # 0 THEN (IF ok(plusIdx) THEN Call(plusIdx, 1) ELSE Write)
        ELSE Write

\* the last element of a sequence
Last(s) == s[Len(s)]

\* a call of expandString that has just been entered
Frame(value) == [value |-> value, i |-> 1, endIdx |-> 0]

\* ------------------------------------------------------------------------
\* CompositeLookup
\* ------------------------------------------------------------------------

\* WithPriority(Lookup, priority)
WithPriority(Lookup, priority) == [Priority |-> priority, Lookup |-> Lookup]

\* the permutations of 1..n
Reorderings(n) == { f \in [1..n -> 1..n] : \A i, j \in 1..n : f[i] = f[j] => i = j }

\* sort.Slice(sorted, func(i, j) bool { return sorted[i].Priority > sorted[j].Priority }):
\* the results the sort may give. sort.Slice is not a stable sort, so that
\* elements of equal Priority may come out in any order.
sortSlice(s) ==
    { [i \in 1..Len(s) |-> s[f[i]]] : f \in
        { g \in Reorderings(Len(s)) :
            \A i, j \in 1..Len(s) : i < j => ~(s[g[j]].Priority > s[g[i]].Priority) } }

\* pl.Lookup(name) of one source: the Variable and whether it was found
sourceLookup(fn, name) ==
    IF name \in DOMAIN fn THEN [name |-> name, ok |-> TRUE, v |-> <<fn[name]>>]
    ELSE [name |-> name, ok |-> FALSE, v |-> << >>]

\* CompositeLookup.Lookup(name) over c.lookups from index i on
RECURSIVE lookupFrom(_, _, _)
lookupFrom(ls, name, i) ==
    IF i > Len(ls) THEN [name |-> name, ok |-> FALSE, v |-> << >>]
    ELSE IF sourceLookup(ls[i].Lookup, name).ok THEN sourceLookup(ls[i].Lookup, name)
    ELSE lookupFrom(ls, name, i + 1)

\* ------------------------------------------------------------------------
\* Line splitter
\* ------------------------------------------------------------------------

EXPORT == <<"e","x","p","o","r","t"," ">>

RECURSIVE validNameFrom(_, _)
validNameFrom(name, i) ==
    IF i > Len(name) THEN TRUE
    ELSE IF name[i] \in UpperCase \cup LowerCase \cup Digit \cup {"_", ".", "-"}
         THEN validNameFrom(name, i + 1)
    ELSE FALSE

\* a name test without the test of the first character
isValidVariableNameAnyFirst(name) == Len(name) # 0 /\ validNameFrom(name, 1)

isValidVariableName(name) ==
    IF Len(name) = 0 THEN FALSE
    ELSE IF name[1] \in Digit THEN FALSE
    ELSE validNameFrom(name, 1)

RECURSIVE unescapeFrom(_, _)
unescapeFrom(s, i) ==
    IF i > Len(s) THEN << >>
    ELSE IF s[i] = "\\" /\ i + 1 <= Len(s) THEN
        CASE s[i + 1] = "n"  -> <<"\n">> \o unescapeFrom(s, i + 2)
          [] s[i + 1] = "t"  -> <<"\t">> \o unescapeFrom(s, i + 2)
          [] s[i + 1] = "r"  -> <<"\r">> \o unescapeFrom(s, i + 2)
          [] s[i + 1] = "\\" -> <<"\\">> \o unescapeFrom(s, i + 2)
          [] s[i + 1] = "\"" -> <<"\"">> \o unescapeFrom(s, i + 2)
          [] OTHER           -> <<s[i]>> \o unescapeFrom(s, i + 1)
    ELSE <<s[i]>> \o unescapeFrom(s, i + 1)

unescapeDoubleQuoted(s) == unescapeFrom(s, 1)

\* The scan for the closing quote from index i on; the test i > first stands
\* for "i > 0" of the code (first is the index of the text's first character).
RECURSIVE closingQuoteFrom(_, _, _)
closingQuoteFrom(text, quoteChar, i) ==
    IF i > Len(text) THEN 0
    ELSE IF text[i] = quoteChar
         THEN IF quoteChar = "\"" /\ i > 1 /\ text[i - 1] = "\\"
              THEN closingQuoteFrom(text, quoteChar, i + 1)
              ELSE i
    ELSE closingQuoteFrom(text, quoteChar, i + 1)

\* "Track quote style and remove surrounding quotes", then Variable{...}
makeVariable(name, value, lineNumber) ==
    LET dq == Len(value) >= 2 /\ value[1] = "\"" /\ value[Len(value)] = "\""
        sq == Len(value) >= 2 /\ value[1] = "'" /\ value[Len(value)] = "'"
        inner == SubSeq(value, 2, Len(value) - 1)
    IN  [Name     |-> name,
         Value    |-> << >>,
         RawValue |-> IF dq THEN unescapeDoubleQuoted(inner) ELSE IF sq THEN inner ELSE value,
         Location |-> Location(lineNumber),
         Quoted   |-> IF dq THEN "DoubleQuoted" ELSE IF sq THEN "Quoted" ELSE "Unquoted",
         Expanded |-> EmptyMap]

\* "Handle inline comments": the value of an unquoted declaration
stripComment(value) ==
    IF Len(value) > 0 /\ value[1] # "\"" /\ value[1] # "'" /\ Index(value, "#") # 0
    THEN TrimSpace(SubSeq(value, 1, Index(value, "#") - 1))
    ELSE value

\* What one iteration of Parse's outer loop does with the line it has read:
\* skip it, fail, append a variable, or go on reading a multi-line value.
lineOutcome(originalLine, lineNumber, definedVars) ==
    IF originalLine = << >> \/ HasPrefix(originalLine, <<"#">>) THEN [kind |-> "skip"]
    ELSE
    LET isExportLine == HasPrefix(originalLine, EXPORT)
        line         == IF isExportLine THEN Tail0(originalLine, 8) ELSE originalLine
        equalIdx     == Index(line, "=")
        colonIdx     == Index(line, ":")
        separatorIdx == IF equalIdx = 0 THEN colonIdx
                        ELSE IF colonIdx = 0 THEN equalIdx
                        ELSE IF equalIdx < colonIdx THEN equalIdx ELSE colonIdx
        name         == TrimSpace(SubSeq(line, 1, separatorIdx - 1))
        value        == stripComment(TrimSpace(Tail0(line, separatorIdx + 1)))
    IN
    IF equalIdx = 0 /\ colonIdx = 0 THEN
        IF isExportLine THEN
            IF TrimSpace(line) \in definedVars THEN [kind |-> "skip"]
            ELSE [kind |-> "error",
                  err  |-> [what |-> "has an unset variable", line |-> lineNumber,
                            text |-> TrimSpace(line)]]
        ELSE [kind |-> "error",
              err  |-> [what |-> "no separator found in line", line |-> lineNumber,
                        text |-> originalLine]]
    ELSE IF ~isValidVariableName(name) THEN
        [kind |-> "error",
         err  |-> [what |-> "invalid variable name", line |-> lineNumber, text |-> name]]
    ELSE IF /\ Len(value) > 0
            /\ value[1] \in {"\"", "'"}
            /\ closingQuoteFrom(value, value[1], 2) = 0
         THEN [kind |-> "multiline", name |-> name, quoteChar |-> value[1], value |-> value]
    ELSE [kind |-> "variable", name |-> name, value |-> value]

\* ------------------------------------------------------------------------
\* Inputs
\* ------------------------------------------------------------------------

MaxLines == 2
MaxMultiLines == 3
MaxTokens == 3
MaxExplainLines == 3
MaxResolves == 2

nA == <<"A">>
nB == <<"B">>

\* NAME=value
Decl(name, value) == name \o <<"=">> \o value
\* ${content}
Braced(content) == <<"$", "{">> \o content \o <<"}">>
\* 'value' or "value"
Quote(q, value) == <<q>> \o value \o <<q>>

Msg == <<"B", " ", "i", "s", " ", "r", "e", "q", "u", "i", "r", "e", "d">>

\* Resolution inputs: the values the declarations of A and of B are given
ValuesOfA == { << >>, <<"v">>, <<"$", "B">>, Braced(nA) }

ValuesOfB ==
    { << >>, <<"w">>, <<"$", "A">>, Braced(nA), <<"$", "B">>,
      <<"$", "A", "/", "$", "B">>,
      Braced(nA \o <<"?">> \o Msg), Braced(nA \o <<":", "?">>),
      Braced(nA \o <<"-">> \o Braced(nB \o <<"?">> \o Msg)),
      Braced(nA \o <<":", "+">> \o Braced(nB \o <<":", "?">> \o Msg)) }

QuotedValues == { <<"w">>, <<"$", "A">>, Braced(nA), Braced(nA \o <<"?">> \o Msg) }

\* Resolution inputs: the physical lines
LinePool ==
    { Decl(nA, v) : v \in ValuesOfA }
    \cup { Decl(nB, v) : v \in ValuesOfB }
    \cup { Decl(nB, Quote("'", v)) : v \in QuotedValues }
    \cup { Decl(nA, Quote("\"", <<"$", "B">>)), Decl(nB, <<"\"", "w">>),
           EXPORT \o nA, << >> }

Files == UNION { [1..n -> LinePool] : n \in 0..MaxLines }

\* Line-splitter inputs: the physical lines
SyntaxPool ==
    { Decl(nA, <<"v">>), Decl(nB, <<"w">>), EXPORT \o Decl(nA, <<"v">>),
      EXPORT \o nA, EXPORT \o nB, EXPORT \o nA \o <<" ">>, EXPORT,
      << >>, <<"#", "A", "=", "v">>, <<" ">>,
      <<"A">>, <<"A", " ", "B">>, <<" ", "#", "A">>,
      <<"A", " ", "B", "=", "v">>, <<"A", "@", "B", "=", "v">>,
      <<"1", "A", "=", "v">>, <<"A", "$", "B", "=", "v">>,
      <<"A", "[", "B", "]", "=", "v">>, <<"=", "v">>, <<"1", "_", "A", ":", "v">>,
      <<"_", "a", "1", "=", "v">>, <<".", "A", "=", "v">>, <<"-", "A", ":", "v">>,
      <<" ", "A", ".", "b", "-", "Z", "9", " ", ":", " ", "v", " ", "#", "c">>,
      Decl(nB, <<"\"", "w">>), <<"w", "\"">> }

SyntaxFiles == UNION { [1..n -> SyntaxPool] : n \in 0..MaxLines }

\* Multi-line inputs: declarations that open a quote, continuation lines with
\* indentation, with and without the closing quote, and a plain declaration
MultiPool ==
    { Decl(nB, <<"\"", "w">>), Decl(nB, <<"'", "w">>),
      <<" ", " ", "x">>, <<" ", "y", "\"">>, <<" ", "y", "'">>,
      <<"a", "\\", "\"", "b">>, Decl(nA, <<"v">>) }

MultiFiles == UNION { [1..n -> MultiPool] : n \in 0..MaxMultiLines }

\* Expansion inputs: the operators, the texts after them, and the lookup tables
Operators == { <<":", "?">>, <<":", "-">>, <<":", "+">>, <<"?">>, <<"-">>, <<"+">> }

TextPool ==
    { << >>, <<"t">>, <<"m">>, Msg, <<"$", "B">>, Braced(nB), <<"$", "A">>, <<"\\", "$", "B">> }
    \cup { <<"x">> \o o \o <<"y">> : o \in Operators }
    \cup { Braced(nB \o o \o m) : o \in Operators, m \in { << >>, <<"m">> } }
    \cup { Braced(nB \o <<"?">> \o Msg), Braced(nB \o <<"-", "$", "A">>),
           Braced(nB \o <<"-", "{", "}", "?", "m">>),
           Braced(nB \o <<":", "-", "{", "x", "}", ":", "?", "m">>) }

tableEntry(name, value, line) ==
    [Name |-> name, Value |-> value, RawValue |-> value, Location |-> Location(line),
     Quoted |-> "Unquoted", Expanded |-> EmptyMap]

\* the tables a file A=.., B=.. leaves for the third declaration
Tables ==
    { a @@ b :
        a \in { EmptyMap } \cup { MapPut(EmptyMap, nA, tableEntry(nA, v, 1)) : v \in { << >>, <<"v">> } },
        b \in { EmptyMap } \cup { MapPut(EmptyMap, nB, tableEntry(nB, v, 2)) : v \in { << >>, <<"w">> } } }

\* pre ${name op text} post; op = << >> is the plain ${name}
ExpandInputs ==
    { [name |-> nA, op |-> o, text |-> t, pre |-> c[1], post |-> c[2],
       value |-> c[1] \o Braced(nA \o o \o t) \o c[2], vars |-> tb] :
        o \in Operators, t \in TextPool,
        c \in { << << >>, << >> >>, << <<"p">>, <<"s">> >> }, tb \in Tables }
    \cup
    { [name |-> nA, op |-> << >>, text |-> << >>, pre |-> c[1], post |-> c[2],
       value |-> c[1] \o Braced(nA) \o c[2], vars |-> tb] :
        c \in { << << >>, << >> >>, << <<"p">>, <<"s">> >> }, tb \in Tables }

nC == <<"C">>
nZ == <<"Z">>

\* Explain inputs: duplicates, a chain, two contributors, an open quote
ExplainPool ==
    { Decl(nA, <<"1">>), Decl(nA, <<"2">>), Decl(nB, <<"$", "A">>), Decl(nC, <<"$", "B">>),
      Decl(nC, <<"$", "B", "$", "A", "$", "A">>), Decl(nB, <<"\"", "w">>) }

ExplainFiles == UNION { [1..n -> ExplainPool] : n \in 0..MaxExplainLines }

\* the names Explain is asked about
ExplainNames == { nA, nB, nC, nZ }

\* Escape inputs: the pieces a value is put together from
TokenPool ==
    { <<"\\", "$">> \o nB, <<"\\">> \o Braced(nB), <<"\\", "$">>,
      <<"$">> \o nB, Braced(nB), <<"/">> }

TokenLists == UNION { [1..n -> TokenPool] : n \in 0..MaxTokens }

RECURSIVE Concat(_)
Concat(ss) == IF ss = << >> THEN << >> ELSE Head(ss) \o Concat(Tail(ss))

EscapeInputs ==
    { [name |-> << >>, op |-> <<"\\">>, text |-> << >>, pre |-> << >>, post |-> << >>,
       value |-> Concat(ts), vars |-> tb, tokens |-> ts] : ts \in TokenLists, tb \in Tables }

\* Quoted inputs: declarations of A with a quoted value, an escaped quote
\* inside it, and text after the closing quote
MaxQuoteLines == 2

QuotePool ==
    { Decl(nA, Quote("\"", <<"v">>)), Decl(nA, Quote("'", <<"v">>)),
      Decl(nA, Quote("\"", <<"a", "\\", "\"", "b">>)), Decl(nA, Quote("'", <<"a", "\\">>)),
      Decl(nA, Quote("\"", << >>)), Decl(nA, Quote("'", <<"$", "B">>)),
      Decl(nA, <<" ">> \o Quote("\"", <<"v", " ">>) \o <<" ">>),
      Decl(nA, Quote("\"", <<"v">>) \o <<"x">>), Decl(nA, Quote("'", <<"v">>) \o <<"x">>),
      Decl(nA, Quote("\"", <<"a">>) \o <<"b", "\"">>), Decl(nA, Quote("'", <<"a">>) \o <<"b", "'">>),
      Decl(nA, Quote("\"", <<"v">>) \o <<" ", "#", "c">>),
      Decl(nA, <<"\"", "a", "\\", "\"">>), Decl(nB, <<"w">>) }

QuoteFiles == UNION { [1..n -> QuotePool] : n \in 0..MaxQuoteLines }

\* Reference inputs: declarations of names with and without . and -, and
\* declarations of X that refer to them as ${N}
MaxRefLines == 2

nX == <<"X">>

RefNames == { nA, <<"_", "a", "1">>, <<"a", ".", "b">>, <<"a", "-", "b">> }

RefPool ==
    { Decl(n, v) : n \in RefNames, v \in { <<"v">>, <<"w">> } }
    \cup { Decl(nX, Braced(n)) : n \in RefNames }
    \cup { Decl(nX, <<"'", "v">>) }

RefFiles == UNION { [1..n -> RefPool] : n \in 0..MaxRefLines }

\* Brace inputs: pre ${A-body} post, the body with and without a plain {
\* and a nested ${B}, and pre ${rest where no } follows
BodyPool ==
    { << >>, <<"t">>, <<"{">>, <<"{", "t">>, <<"t", "{">>, Braced(nB), <<"{">> \o Braced(nB) }

RestPool ==
    { nA, nA \o <<"-", "t">>, nA \o <<"$">> \o nB, nA \o <<"/", "$">> \o nB \o <<"/">>,
      nA \o <<"{", "$">> \o nB }

BraceInputs ==
    { [name |-> nA, op |-> <<"{">>, text |-> b, pre |-> pr, post |-> po,
       value |-> pr \o Braced(nA \o <<"-">> \o b) \o po, vars |-> tb, closed |-> TRUE] :
        b \in BodyPool, pr \in { << >>, <<"p">> }, po \in { << >>, <<"s">>, <<"}">> },
        tb \in Tables }
    \cup
    { [name |-> nA, op |-> <<"{">>, text |-> r, pre |-> pr, post |-> << >>,
       value |-> pr \o <<"$", "{">> \o r, vars |-> tb, closed |-> FALSE] :
        r \in RestPool, pr \in { << >>, <<"p">> }, tb \in Tables }

NoInput == [name |-> << >>, op |-> << >>, text |-> << >>, pre |-> << >>, post |-> << >>,
            value |-> << >>, vars |-> EmptyMap]

\* ------------------------------------------------------------------------
\* State
\* ------------------------------------------------------------------------

\* the sources of a CompositeLookup: at most MaxSources, of two priorities,
\* each a lookup function that knows A (with one of two values) or nothing
MaxSources == 3
Priorities == 1..2
osVariable(name, value) ==
    [Name |-> name, Value |-> value, RawValue |-> value, Location |-> <<":", "o", "s">>]
LookupFns == { EmptyMap, nA :> osVariable(nA, <<"x">>), nA :> osVariable(nA, <<"y">>) }
SourcePool == { WithPriority(fn, p) : fn \in LookupFns, p \in Priorities }
SourceLists == UNION { [1..n -> SourcePool] : n \in 0..MaxSources }
LookupNames == { nA, nB }

VARIABLES
    input,        \* the reader's content: the physical lines scanner.Scan yields
    pos,          \* the number of lines the scanner has yielded
    ctxDone,      \* ctx.Done() is closed
    pc,           \* where Parse is: "scan", "multiline", or "return"
    lineNumber,   \* Parse's lineNumber
    definedVars,  \* Parse's definedVars
    pending,      \* the multi-line value being read: name, quoteChar, multilineValue
    parseRet,     \* what Parse returned: envFile (nil or not) and err
    Variables,    \* envFile.Variables
    expanded,     \* envFile.expanded
    expandCalls,  \* how many times EnvFile.expand has run
    returns,      \* what the calls of Resolve returned, in order
    exIn,         \* the arguments of a call of expandString
    exOut,        \* what that call returned: << >> before it returns
    frames,       \* the calls of expandString in progress: value, i, and endIdx
    scanRet,      \* how the outermost of them returned: "", "ok" or "err"
    explained,    \* the last call of Explain: its argument and what it returned
    sources,      \* the arguments of NewCompositeLookup
    lookups,      \* CompositeLookup.lookups: << >> before the construction
    found         \* the last call of CompositeLookup.Lookup: name and result

parseVars == <<input, pos, ctxDone, pc, lineNumber, definedVars, pending, parseRet>>
resolveVars == <<expanded, expandCalls, returns>>
expandVars == <<exIn, exOut, frames, scanRet>>
queryVars == <<explained, sources, lookups, found>>
vars == <<parseVars, Variables, resolveVars, expandVars, queryVars>>

NoPending == [name |-> << >>, quoteChar |-> "", multilineValue |-> << >>]
NotReturned == [done |-> FALSE, envFile |-> FALSE, err |-> << >>]

\* Explain has not been called
NotExplained == [name |-> << >>, out |-> [found |-> FALSE, text |-> ""]]

\* CompositeLookup.Lookup has not been called
NoLookup == [name |-> << >>, ok |-> FALSE, v |-> << >>]

\* no composite lookup is in play
NoQueries ==
    /\ explained = NotExplained
    /\ sources = << >>
    /\ lookups = << >>
    /\ found = NoLookup

\* no call of expandString is followed step by step
NotScanning == frames = << >> /\ scanRet = ""

\* Parse is called on a reader that holds the lines of file
InitParse(files) ==
    /\ input \in files
    /\ pos = 0
    /\ ctxDone = FALSE
    /\ pc = "scan"
    /\ lineNumber = 0
    /\ definedVars = {}
    /\ pending = NoPending
    /\ parseRet = NotReturned
    /\ Variables = << >>
    /\ expanded = FALSE
    /\ expandCalls = 0
    /\ returns = << >>

Init == InitParse(Files) /\ exIn = NoInput /\ exOut = << >> /\ NotScanning /\ NoQueries

InitSyntax == InitParse(SyntaxFiles) /\ exIn = NoInput /\ exOut = << >> /\ NotScanning /\ NoQueries

InitMultiline == InitParse(MultiFiles) /\ exIn = NoInput /\ exOut = << >> /\ NotScanning /\ NoQueries

InitExplain == InitParse(ExplainFiles) /\ exIn = NoInput /\ exOut = << >> /\ NotScanning /\ NoQueries

InitEscape == InitParse({<< >>}) /\ exIn \in EscapeInputs /\ exOut = << >> /\ NotScanning /\ NoQueries

InitExpand == InitParse({<< >>}) /\ exIn \in ExpandInputs /\ exOut = << >> /\ NotScanning /\ NoQueries

InitQuote == InitParse(QuoteFiles) /\ exIn = NoInput /\ exOut = << >> /\ NotScanning /\ NoQueries

InitRef == InitParse(RefFiles) /\ exIn = NoInput /\ exOut = << >> /\ NotScanning /\ NoQueries

InitBrace == InitParse({<< >>}) /\ exIn \in BraceInputs /\ exOut = << >> /\ NotScanning /\ NoQueries

\* return nil, err
ParseFails(err) ==
    /\ pc' = "return"
    /\ parseRet' = [done |-> TRUE, envFile |-> FALSE, err |-> <<err>>]
    /\ UNCHANGED <<definedVars, pending, Variables>>

\* an append that does not record the name as defined
AppendVariableForgets(name, value) ==
    /\ Variables' = Append(Variables, makeVariable(name, value, lineNumber'))
    /\ pending' = NoPending
    /\ pc' = "scan"
    /\ UNCHANGED <<parseRet, definedVars>>

\* envFile.Variables = append(envFile.Variables, variable); definedVars[name] = true
AppendVariable(name, value) ==
    /\ Variables' = Append(Variables, makeVariable(name, value, lineNumber'))
    /\ definedVars' = definedVars \cup {name}
    /\ pending' = NoPending
    /\ pc' = "scan"
    /\ UNCHANGED parseRet

\* ctx.Err()
Canceled == [what |-> "context canceled", line |-> 0, text |-> << >>]

\* the context is cancelled while Parse runs
Cancel ==
    /\ ~parseRet.done
    /\ ~ctxDone
    /\ ctxDone' = TRUE
    /\ UNCHANGED <<input, pos, pc, lineNumber, definedVars, pending, parseRet,
                   Variables, resolveVars, expandVars, queryVars>>

\* One iteration of Parse's outer loop: scanner.Scan() yields a line.
ScanLine ==
    /\ pc = "scan"
    /\ pos < Len(input)
    /\ pos' = pos + 1
    /\ lineNumber' = lineNumber + 1
    /\ UNCHANGED <<input, ctxDone, resolveVars, expandVars, queryVars>>
    /\ IF ctxDone THEN ParseFails(Canceled)
       ELSE LET o == lineOutcome(input[pos + 1], lineNumber', definedVars)
            IN  CASE o.kind = "skip" ->
                        UNCHANGED <<pc, definedVars, pending, parseRet, Variables>>
                  [] o.kind = "error" -> ParseFails(o.err)
                  [] o.kind = "variable" -> AppendVariable(o.name, o.value)
                  [] o.kind = "multiline" ->
                        /\ pc' = "multiline"
                        /\ pending' = [name |-> o.name, quoteChar |-> o.quoteChar,
                                       multilineValue |-> o.value]
                        /\ UNCHANGED <<definedVars, parseRet, Variables>>

\* an inner loop that joins the continuation line without its indentation
ScanContinuationTrims ==
    /\ pc = "multiline"
    /\ pos < Len(input)
    /\ pos' = pos + 1
    /\ lineNumber' = lineNumber + 1
    /\ UNCHANGED <<input, ctxDone, resolveVars, expandVars, queryVars>>
    /\ LET nextLine == input[pos + 1]
           value    == pending.multilineValue \o <<"\n">> \o TrimSpace(nextLine)
       IN  IF closingQuoteFrom(nextLine, pending.quoteChar, 1) # 0
           THEN AppendVariable(pending.name, value)
           ELSE /\ pending' = [pending EXCEPT !.multilineValue = value]
                /\ UNCHANGED <<pc, definedVars, parseRet, Variables>>

\* One iteration of the inner loop that reads the lines of a multi-line value.
ScanContinuation ==
    /\ pc = "multiline"
    /\ pos < Len(input)
    /\ pos' = pos + 1
    /\ lineNumber' = lineNumber + 1
    /\ UNCHANGED <<input, ctxDone, resolveVars, expandVars, queryVars>>
    /\ LET nextLine == input[pos + 1]
           value    == pending.multilineValue \o <<"\n">> \o nextLine
       IN  IF closingQuoteFrom(nextLine, pending.quoteChar, 1) # 0
           THEN AppendVariable(pending.name, value)
           ELSE /\ pending' = [pending EXCEPT !.multilineValue = value]
                /\ UNCHANGED <<pc, definedVars, parseRet, Variables>>

\* The inner loop's scanner.Scan() returns false: the input ends inside the value.
ContinuationEOF ==
    /\ pc = "multiline"
    /\ pos = Len(input)
    /\ UNCHANGED <<input, pos, ctxDone, lineNumber, resolveVars, expandVars, queryVars>>
    /\ AppendVariable(pending.name, pending.multilineValue)

\* The outer loop's scanner.Scan() returns false: return envFile, nil
ParseEOF ==
    /\ pc = "scan"
    /\ pos = Len(input)
    /\ pc' = "return"
    /\ parseRet' = [done |-> TRUE, envFile |-> TRUE, err |-> << >>]
    /\ UNCHANGED <<input, pos, ctxDone, lineNumber, definedVars, pending,
                   Variables, resolveVars, expandVars, queryVars>>

\* a test that makes Resolve expand on every call
mustExpandAlways(flag) == TRUE

\* if !e.expanded
mustExpand(flag) == ~flag

\* EnvFile.Resolve on the EnvFile Parse returned
Resolve ==
    /\ parseRet.envFile
    /\ Len(returns) < MaxResolves
    /\ UNCHANGED <<parseVars, expandVars, queryVars>>
    /\ IF mustExpand(expanded) THEN
           LET r == expand(Variables)
           IN  /\ expandCalls' = expandCalls + 1
               /\ Variables' = r.vs
               /\ IF r.err # << >>
                  THEN /\ returns' = Append(returns, [map |-> << >>, err |-> r.err])
                       /\ UNCHANGED expanded
                  ELSE /\ expanded' = TRUE
                       /\ returns' = Append(returns, [map |-> <<resultMap(r.vs)>>, err |-> << >>])
       ELSE /\ returns' = Append(returns, [map |-> <<resultMap(Variables)>>, err |-> << >>])
            /\ UNCHANGED <<Variables, expanded, expandCalls>>

\* EnvFile.Explain(name) on the EnvFile Parse returned
Explain ==
    /\ parseRet.envFile
    /\ \E name \in ExplainNames :
          explained' = [name |-> name, out |-> explanation(Variables, name)]
    /\ UNCHANGED <<parseVars, Variables, resolveVars, expandVars, sources, lookups, found>>

\* A call expandString(value, lookup) returns.
ExpandString ==
    /\ exIn # NoInput
    /\ exOut = << >>
    /\ exOut' = <<expandString(exIn.value, exIn.vars)>>
    /\ UNCHANGED <<parseVars, Variables, resolveVars, exIn, frames, scanRet, queryVars>>

Next ==
    \/ Cancel
    \/ ScanLine
    \/ ScanContinuation
    \/ ContinuationEOF
    \/ ParseEOF
    \/ Resolve

\* Parse, then Resolve, on the resolution inputs
Spec == Init /\ [][Next]_vars

\* Parse, then Resolve, on the line-splitter inputs
SpecSyntax == InitSyntax /\ [][Next]_vars

NextExplain == Next \/ Explain

\* Parse, then Resolve and Explain, on the Explain inputs
SpecExplain == InitExplain /\ [][NextExplain]_vars

\* NewCompositeLookup is about to be called on a list of sources
InitLookup ==
    /\ InitParse({<< >>}) /\ exIn = NoInput /\ exOut = << >> /\ NotScanning
    /\ explained = NotExplained
    /\ sources \in SourceLists
    /\ lookups = << >>
    /\ found = NoLookup

\* c := NewCompositeLookup(sources...); lookups holds c.lookups once c exists
NewCompositeLookup ==
    /\ lookups = << >>
    /\ \E sorted \in sortSlice(sources) : lookups' = <<sorted>>
    /\ UNCHANGED <<parseVars, Variables, resolveVars, expandVars, explained, sources, found>>

\* c.Lookup(name)
Lookup ==
    /\ lookups # << >>
    /\ \E name \in LookupNames : found' = lookupFrom(lookups[1], name, 1)
    /\ UNCHANGED <<parseVars, Variables, resolveVars, expandVars, explained, sources, lookups>>

NextLookup == NewCompositeLookup \/ Lookup

SpecLookup == InitLookup /\ [][NextLookup]_vars

\* Parse, then Resolve, on the multi-line inputs
SpecMultiline == InitMultiline /\ [][Next]_vars

\* expandString on the escape inputs
SpecEscape == InitEscape /\ [][ExpandString]_vars

\* expandString on the expansion inputs
SpecExpand == InitExpand /\ [][ExpandString]_vars

\* Parse and Resolve on the quoted inputs
SpecQuote == InitQuote /\ [][Next]_vars

\* Parse and Resolve on the reference inputs
SpecRef == InitRef /\ [][Next]_vars

\* expandString on the brace inputs
SpecBrace == InitBrace /\ [][ExpandString]_vars

\* expandString is called on the value of an expansion or brace input
InitScan ==
    /\ InitParse({<< >>}) /\ exIn \in ExpandInputs \cup BraceInputs /\ exOut = << >>
    /\ frames = <<Frame(exIn.value)>> /\ scanRet = ""
    /\ NoQueries

\* One iteration of the loop of the innermost call of expandString: it goes on
\* at a later position, calls expandString on a default or replacement, or
\* returns an error, which every caller hands on.
ScanIteration ==
    /\ frames # << >>
    /\ Last(frames).i <= Len(Last(frames).value)
    /\ UNCHANGED <<parseVars, Variables, resolveVars, exIn, exOut, queryVars>>
    /\ LET d       == Len(frames)
           value   == frames[d].value
           i       == frames[d].i
           GoOn(j) == /\ frames' = [frames EXCEPT ![d].i = j]
                      /\ UNCHANGED scanRet
       IN  IF escapedDollar(value, i) THEN GoOn(i + 2)
           ELSE IF value[i] = "$" /\ i + 1 <= Len(value) THEN
               IF value[i + 1] = "{" THEN
                   LET endIdx == findClosingBrace(value, i + 2)
                       step   == bracedStep(SubSeq(value, i + 2, endIdx - 1), exIn.vars)
                   IN  IF endIdx = 0 THEN GoOn(i + 1)
                       ELSE IF step.kind = "fail"
                            THEN frames' = << >> /\ scanRet' = "err"
                       ELSE IF step.kind = "call"
                            THEN /\ frames' = Append([frames EXCEPT ![d].endIdx = endIdx],
                                                     Frame(step.text))
                                 /\ UNCHANGED scanRet
                       ELSE GoOn(endIdx + 1)
               ELSE IF isVarNameChar(value[i + 1]) THEN GoOn(nameEnd(value, i + 1))
               ELSE GoOn(i + 1)
           ELSE GoOn(i + 1)

\* The loop of the innermost call ends: return result.String(), expanded, nil.
\* The caller goes on after the closing brace (i = endIdx, then i++).
ScanReturn ==
    /\ frames # << >>
    /\ Last(frames).i > Len(Last(frames).value)
    /\ UNCHANGED <<parseVars, Variables, resolveVars, exIn, exOut, queryVars>>
    /\ LET d == Len(frames)
       IN  IF d = 1 THEN frames' = << >> /\ scanRet' = "ok"
           ELSE /\ frames' = [SubSeq(frames, 1, d - 1) EXCEPT
                                 ![d - 1].i = frames[d - 1].endIdx + 1, ![d - 1].endIdx = 0]
                /\ UNCHANGED scanRet

NextScan == ScanIteration \/ ScanReturn

\* a call of expandString that has started keeps running
SpecScan == InitScan /\ [][NextScan]_vars /\ WF_vars(NextScan)

\* ------------------------------------------------------------------------
\* Properties of Resolve (checked under Spec)
\* ------------------------------------------------------------------------

\* a call of Resolve returns in this step
ResolveReturns == Len(returns') = Len(returns) + 1

\* the declaration a reference to name resolves to from declaration i:
\* the last one before i with that name
DeclaredBefore(Vs, i, name) == { j \in 1..(i - 1) : Vs[j].Name = name }
LastBefore(Vs, i, name) ==
    CHOOSE j \in DeclaredBefore(Vs, i, name) : \A k \in DeclaredBefore(Vs, i, name) : k <= j

\* the table of the declarations before declaration i
TableBefore(Vs, i) ==
    [name \in { Vs[j].Name : j \in 1..(i - 1) } |-> Vs[LastBefore(Vs, i, name)]]

\* C1: Resolve is idempotent. A call of Resolve that succeeds sets the expanded
\* flag; a call made with the flag set returns what the call before it
\* returned (a map and no error), does not run expand again, and leaves
\* Variables (every Value and every Expanded map) and the flag unchanged.
C1_ResolveIdempotent ==
    [][ResolveReturns =>
          /\ (Last(returns').err = << >> => expanded')
          /\ (expanded =>
                /\ returns # << >>
                /\ Last(returns') = Last(returns)
                /\ Last(returns').err = << >>
                /\ Last(returns').map # << >>
                /\ expandCalls' = expandCalls
                /\ Variables' = Variables
                /\ expanded')]_vars

\* witness of C1: Resolve has returned twice on a file in which a reference was
\* expanded from an earlier declaration
C1_Witness ==
    /\ Len(returns) = 2
    /\ returns[1].err = << >>
    /\ \E i \in 1..Len(Variables) : Variables[i].Expanded # EmptyMap

\* $NAME and ${NAME}
PlainForms(name) == { <<"$">> \o name, Braced(name) }

\* C2: declarations are expanded in declaration order against the table of the
\* declarations before them. After a successful Resolve every variable that is
\* not single-quoted has the Value and the provenance that expandString gives
\* for its RawValue on the table of the earlier declarations; a plain or bare
\* reference to a name not declared earlier (the variable itself, or a later
\* one) gives the empty string and no provenance, one to a name declared
\* earlier gives the resolved Value of that declaration; and a file without
\* any "?" never makes Resolve fail.
C2_DeclarationOrder ==
    /\ expanded =>
         \A i \in 1..Len(Variables) :
            LET v == Variables[i]
                r == expandString(v.RawValue, TableBefore(Variables, i))
            IN  v.Quoted # "Quoted" =>
                  /\ r.err = << >>
                  /\ v.Value = r.val
                  /\ v.Expanded = r.exp
                  /\ \A name \in {nA, nB} :
                       v.RawValue \in PlainForms(name) =>
                          IF DeclaredBefore(Variables, i, name) = {}
                          THEN v.Value = << >> /\ v.Expanded = EmptyMap
                          ELSE LET d == Variables[LastBefore(Variables, i, name)]
                               IN  /\ v.Value = d.Value
                                   /\ v.Expanded = MapPut(EmptyMap, name, d.Location)
    /\ (\A i \in 1..Len(Variables) : Index(Variables[i].RawValue, "?") = 0) =>
         \A k \in 1..Len(returns) : returns[k].err = << >>

\* witness of C2: A is declared first and refers to B and to itself, B is
\* declared after it and refers to A
C2_Witness ==
    /\ expanded
    /\ Len(Variables) = 2
    /\ Variables[1].Name = nA /\ Variables[1].RawValue \in PlainForms(nB) \cup PlainForms(nA)
    /\ Variables[2].Name = nB /\ Variables[2].RawValue \in PlainForms(nA)

\* ------------------------------------------------------------------------
\* Properties of expandString (checked under SpecExpand)
\* ------------------------------------------------------------------------

\* the text between the braces of the reference under expansion
Content == exIn.name \o exIn.op \o exIn.text

Returned == exOut # << >>
Out == exOut[1]

IsSet(name) == name \in DOMAIN exIn.vars
ValueOf(name) == exIn.vars[name].Value
NonEmpty(name) == IsSet(name) /\ ValueOf(name) # << >>
Credit(name) == MapPut(EmptyMap, name, exIn.vars[name].Location)

\* the reference is replaced by s, the text around it is kept, the provenance is prov
Emits(s, prov) ==
    /\ Out.err = << >>
    /\ Out.val = exIn.pre \o s \o exIn.post
    /\ Out.exp = prov

FailsWith(msg) == Out.err = <<msg>> /\ Out.val = << >> /\ Out.exp = EmptyMap

\* the ${-nesting depth at position p of content: ${ opens, } closes
RECURSIVE DepthFrom(_, _, _, _)
DepthFrom(content, i, d, p) ==
    IF i >= p THEN d
    ELSE IF content[i] = "$" /\ i + 1 <= Len(content) /\ content[i + 1] = "{"
         THEN DepthFrom(content, i + 2, d + 1, p)
    ELSE IF content[i] = "}" /\ d > 0 THEN DepthFrom(content, i + 1, d - 1, p)
    ELSE DepthFrom(content, i + 1, d, p)

DepthAt(content, p) == DepthFrom(content, 1, 0, p)

\* the positions of content where the token stands outside every nested ${...}
TopLevel(content, operator) ==
    { p \in 1..Len(content) :
        /\ p + Len(operator) - 1 <= Len(content)
        /\ SubSeq(content, p, p + Len(operator) - 1) = operator
        /\ DepthAt(content, p) = 0 }

\* the nested references ${B<op>m} a fallback text can be
NestedRefs ==
    { Braced(nB \o o \o m) : o \in Operators, m \in { << >>, <<"m">> } }
    \cup { Braced(nB \o <<"?">> \o Msg) }

\* the nested references that fail with m when B is unset
RequiredRefs(m) == { Braced(nB \o <<"?">> \o m), Braced(nB \o <<":", "?">> \o m) }

DefaultOps == { <<"-">>, <<":", "-">> }

\* the default operator keeps the variable's own value
KeepsValue == IF exIn.op = <<"-">> THEN IsSet(exIn.name) ELSE NonEmpty(exIn.name)

\* C3: inside ${...} an operator token is recognised only at nesting depth 0 of
\* the content, never inside a nested ${...}: findOperator returns the first
\* position of the token outside every nested reference, or none. The fallback
\* text is expanded only when it is used: ${A-${B?m}} (and the :- form) yields
\* A's value without error when A is set (non-empty for :-), and fails with m
\* when A is unset (empty for :-) and B is unset.
C3_OperatorAtDepthZero ==
    Returned =>
        /\ \A o \in Operators :
              LET p == findOperator(Content, o)
              IN  IF TopLevel(Content, o) = {} THEN p = 0
                  ELSE p \in TopLevel(Content, o) /\ \A q \in TopLevel(Content, o) : p <= q
        /\ (exIn.op \in DefaultOps /\ exIn.text \in NestedRefs) =>
              /\ KeepsValue => Emits(ValueOf(exIn.name), Credit(exIn.name))
              /\ \A m \in { <<"m">>, Msg } :
                    (~KeepsValue /\ ~IsSet(nB) /\ exIn.text \in RequiredRefs(m)) => FailsWith(m)

\* A is set, B is not, and ${A-${B?B is required}} has been expanded
C3_Witness ==
    /\ Returned
    /\ exIn.op = <<"-">> /\ exIn.text = Braced(nB \o <<"?">> \o Msg)
    /\ NonEmpty(nA) /\ ~IsSet(nB)
    /\ Out.err = << >>

\* the order in which expandString tests the content for the operators
Precedence == << <<":", "?">>, <<":", "-">>, <<":", "+">>, <<"?">>, <<"-">>, <<"+">> >>

Higher(operator) ==
    { Precedence[k] : k \in { k \in 1..Len(Precedence) :
                                \E l \in (k + 1)..Len(Precedence) : Precedence[l] = operator } }

\* The reference under expansion is ${name<operator>text}: operator follows the
\* name, and no operator tested before it stands at depth 0 of the content.
Form(operator) ==
    /\ Returned
    /\ exIn.op = operator
    /\ \A h \in Higher(operator) : TopLevel(Content, h) = {}

DefaultMessage(name) ==
    name \o <<":"," ","r","e","q","u","i","r","e","d"," ","v","a","r","i","a","b","l","e",
              " ","i","s"," ","n","o","t"," ","s","e","t">>

Message == IF exIn.text = << >> THEN DefaultMessage(exIn.name) ELSE exIn.text

\* the expansion of the text after the operator, on its own
TextResult == expandString(exIn.text, exIn.vars)

\* C4: ${name:?message} fails when name is unset or its value is empty,
\* ${name?message} fails only when name is unset (an empty value is emitted
\* without error); the error is exactly message when message is non-empty and
\* "<name>: required variable is not set" when it is empty; otherwise the
\* variable's value is emitted and name is recorded in the provenance.
C4_RequiredOperators ==
    /\ Form(<<":", "?">>) =>
          IF NonEmpty(exIn.name) THEN Emits(ValueOf(exIn.name), Credit(exIn.name))
          ELSE FailsWith(Message)
    /\ Form(<<"?">>) =>
          IF IsSet(exIn.name) THEN Emits(ValueOf(exIn.name), Credit(exIn.name))
          ELSE FailsWith(Message)

\* ${A?B is required} has failed with its message, A being unset
C4_Witness ==
    /\ Form(<<"?">>) /\ exIn.text = Msg /\ ~IsSet(nA)
    /\ Out.err = <<Msg>>

\* C5: ${name:-text} emits name's value when name is set and non-empty,
\* otherwise the recursive expansion of text; ${name-text} emits name's value
\* whenever name is set (also when empty), otherwise the recursive expansion of
\* text. When the fallback is taken the provenance is that of text: its
\* contributors, and no entry for name on account of the operator.
C5_DefaultOperators ==
    Form(<<":", "-">>) \/ Form(<<"-">>) =>
        IF KeepsValue THEN Emits(ValueOf(exIn.name), Credit(exIn.name))
        ELSE /\ IF TextResult.err # << >> THEN Out.err = TextResult.err
                ELSE Emits(TextResult.val, TextResult.exp)
             /\ exIn.text = <<"t">> => Emits(<<"t">>, EmptyMap)
             /\ exIn.text \in PlainForms(nB) =>
                   IF IsSet(nB) THEN Emits(ValueOf(nB), Credit(nB))
                   ELSE Emits(<< >>, EmptyMap)

\* A is set and empty, B is w, and ${A:-$B} has emitted w on account of B alone
C5_Witness ==
    /\ Form(<<":", "-">>) /\ exIn.text = <<"$">> \o nB
    /\ IsSet(nA) /\ ~NonEmpty(nA) /\ NonEmpty(nB)
    /\ Emits(ValueOf(nB), Credit(nB))

\* the replacement operator emits the text
Replaces == IF exIn.op = <<"+">> THEN IsSet(exIn.name) ELSE NonEmpty(exIn.name)

\* C6: ${name:+text} emits the recursive expansion of text when name is set
\* and non-empty and nothing otherwise; ${name+text} emits it whenever name is
\* set (also when empty) and nothing otherwise. When the replacement is emitted
\* the provenance holds name with its Location and the contributors of text;
\* otherwise nothing is emitted and no provenance entry is added.
C6_ReplacementOperators ==
    Form(<<":", "+">>) \/ Form(<<"+">>) =>
        IF ~Replaces THEN Emits(<< >>, EmptyMap)
        ELSE /\ IF TextResult.err # << >> THEN Out.err = TextResult.err
                ELSE Emits(TextResult.val,
                           MapPut(TextResult.exp, exIn.name, exIn.vars[exIn.name].Location))
             /\ exIn.text = <<"t">> => Emits(<<"t">>, Credit(exIn.name))
             /\ (exIn.text \in PlainForms(nB) /\ IsSet(nB)) =>
                   Emits(ValueOf(nB), MapPut(Credit(nB), exIn.name, exIn.vars[exIn.name].Location))

\* A is set and empty, B is w, and ${A+$B} has emitted w on account of A and B
C6_Witness ==
    /\ Form(<<"+">>) /\ exIn.text = <<"$">> \o nB
    /\ IsSet(nA) /\ ~NonEmpty(nA) /\ NonEmpty(nB)
    /\ Out.err = << >> /\ Out.val = exIn.pre \o ValueOf(nB) \o exIn.post
    /\ DOMAIN Out.exp = { nA, nB }

\* ------------------------------------------------------------------------
\* Single-quoted values and failures of Resolve (checked under Spec)
\* ------------------------------------------------------------------------

SingleQuoted(v) == v.Quoted = "Quoted"

HasQuestionMark(text) == \E p \in 1..Len(text) : text[p] = "?"

\* C7: single-quoted values never expand. After Resolve every Variable whose
\* QuoteStyle is single-quoted has Value equal to RawValue and an empty
\* provenance map, whatever $NAME, ${NAME} or operator forms its text holds and
\* whether or not the names are declared; a ? form that would fail does not
\* fail inside single quotes.
C7_SingleQuotedLiteral ==
    /\ expanded =>
          \A i \in 1..Len(Variables) :
              SingleQuoted(Variables[i]) =>
                  /\ Variables[i].Value = Variables[i].RawValue
                  /\ Variables[i].Expanded = EmptyMap
    /\ (\A i \in 1..Len(Variables) :
            HasQuestionMark(Variables[i].RawValue) => SingleQuoted(Variables[i]))
          => \A k \in 1..Len(returns) : returns[k].err = << >>

\* B='${A?B is required}' has been resolved, with A declared before it or not
C7_Witness ==
    /\ expanded /\ returns # << >>
    /\ \E i \in 1..Len(Variables) :
          /\ SingleQuoted(Variables[i])
          /\ Variables[i].RawValue = Braced(nA \o <<"?">> \o Msg)
          /\ Variables[i].Value = Variables[i].RawValue
          /\ DeclaredBefore(Variables, i, nA) = {}

\* the expansion of declaration k on the table of the declarations before it fails
FailsAt(Vs, k) ==
    /\ ~SingleQuoted(Vs[k])
    /\ expandString(Vs[k].RawValue, TableBefore(Vs, k)).err # << >>

\* declaration j is as Parse left it
Untouched(v) == v.Value = << >> /\ v.Expanded = EmptyMap

\* declaration j has been expanded on the table of the declarations before it
Processed(Vs, j) ==
    IF SingleQuoted(Vs[j]) THEN Vs[j].Value = Vs[j].RawValue /\ Vs[j].Expanded = EmptyMap
    ELSE LET r == expandString(Vs[j].RawValue, TableBefore(Vs, j))
         IN  r.err = << >> /\ Vs[j].Value = r.val /\ Vs[j].Expanded = r.exp

\* the values whose failure comes from a nested default or replacement text
NestedFailures ==
    { Braced(nA \o <<"-">> \o Braced(nB \o <<"?">> \o Msg)),
      Braced(nA \o <<":", "+">> \o Braced(nB \o <<":", "?">> \o Msg)) }

\* C8: if the expansion of a variable fails, Resolve aborts at that variable
\* (the ones before it are expanded, it and the ones after it are not), returns
\* the error and no map, and does not mark the EnvFile as expanded; a failure
\* inside a recursively expanded default or replacement text reaches the caller
\* of Resolve unchanged. Resolve returns a map only when no expansion fails.
C8_FailureAborts ==
    /\ \A n \in 1..Len(returns) : (returns[n].err # << >>) <=> (returns[n].map = << >>)
    /\ (returns # << >> /\ Last(returns).err # << >>) =>
          /\ ~expanded
          /\ \E k \in 1..Len(Variables) :
                /\ \A j \in 1..(k - 1) : Processed(Variables, j)
                /\ FailsAt(Variables, k)
                /\ Last(returns).err = expandString(Variables[k].RawValue,
                                                    TableBefore(Variables, k)).err
                /\ Variables[k].RawValue \in NestedFailures => Last(returns).err = <<Msg>>
                /\ \A j \in k..Len(Variables) : Untouched(Variables[j])
    /\ (returns # << >> /\ Last(returns).err = << >>) =>
          /\ expanded
          /\ \A k \in 1..Len(Variables) : Processed(Variables, k)

\* A=v, B=${A:+${B:?B is required}}: Resolve has failed at B with the nested message
C8_Witness ==
    /\ returns # << >> /\ Last(returns) = [map |-> << >>, err |-> <<Msg>>]
    /\ ~expanded
    /\ Len(Variables) = 2
    /\ Variables[1].Name = nA /\ Variables[1].Value = <<"v">>
    /\ Variables[2].RawValue = Braced(nA \o <<":", "+">> \o Braced(nB \o <<":", "?">> \o Msg))
    /\ Untouched(Variables[2])

\* ------------------------------------------------------------------------
\* Properties of Parse's line splitting (checked under SpecSyntax)
\* ------------------------------------------------------------------------

\* the outer loop of Parse reads a line in this step (the 1-based line pos')
ReadsLine == pc = "scan" /\ pos' = pos + 1 /\ ~ctxDone

\* the line without a leading "export "
Unexported(l) == IF HasPrefix(l, EXPORT) THEN SubSeq(l, Len(EXPORT) + 1, Len(l)) ELSE l

HasSeparator(l) == \E p \in 1..Len(l) : l[p] \in {"=", ":"}

\* a line that is neither blank nor a comment
Meaningful(l) == TrimSpace(l) # << >> /\ Head(TrimSpace(l)) # "#" /\ Head(l) # "#"

\* the trimmed text before the first separator of a declaration line
NameOf(l) ==
    LET u   == Unexported(l)
        sep == CHOOSE p \in 1..Len(u) :
                   u[p] \in {"=", ":"} /\ \A q \in 1..(p - 1) : u[q] \notin {"=", ":"}
    IN  TrimSpace(SubSeq(u, 1, sep - 1))

Letter == UpperCase \cup LowerCase

\* [A-Za-z_][A-Za-z0-9_.-]*
MatchesPattern(name) ==
    /\ name # << >>
    /\ name[1] \in Letter \cup {"_"}
    /\ \A p \in 1..Len(name) : name[p] \in Letter \cup Digit \cup {"_", ".", "-"}

\* non-empty, every character in [A-Za-z0-9_.-], the first one not a digit
MatchesNoDigitFirst(name) ==
    /\ name # << >>
    /\ name[1] \notin Digit
    /\ \A p \in 1..Len(name) : name[p] \in Letter \cup Digit \cup {"_", ".", "-"}

\* the declaration of name is taken: a Variable is appended, or its quoted
\* value goes on to the next line; Parse has not failed
Accepted(name) ==
    /\ parseRet' = parseRet
    /\ \/ /\ Len(Variables') = Len(Variables) + 1
          /\ SubSeq(Variables', 1, Len(Variables)) = Variables
          /\ Last(Variables').Name = name
       \/ /\ pc' = "multiline" /\ pending'.name = name /\ Variables' = Variables

\* Parse returns an error of this kind for this line and text, and no EnvFile
Rejected(what, text) ==
    /\ parseRet' = [done |-> TRUE, envFile |-> FALSE,
                    err |-> <<[what |-> what, line |-> pos', text |-> text]>>]
    /\ Variables' = Variables

ReadsDeclaration == ReadsLine /\ Meaningful(input[pos']) /\ HasSeparator(Unexported(input[pos']))

\* C9 as stated: Parse accepts a declaration only if its trimmed name matches
\* [A-Za-z_][A-Za-z0-9_.-]*; every other name makes Parse fail with an error
\* that names the identifier and the 1-based line number, and no EnvFile.
C9_AsStated ==
    [][ReadsDeclaration =>
          IF MatchesPattern(NameOf(input[pos'])) THEN Accepted(NameOf(input[pos']))
          ELSE Rejected("invalid variable name", NameOf(input[pos']))]_vars

\* C9, amended: Parse accepts a declaration only if its trimmed name is
\* non-empty, holds only characters of [A-Za-z0-9_.-] and does not start with a
\* digit (a leading . or - is accepted); every other name makes Parse fail with
\* an error that names the identifier and the 1-based line number, and no
\* EnvFile is returned.
C9_NameValidation ==
    [][ReadsDeclaration =>
          IF MatchesNoDigitFirst(NameOf(input[pos'])) THEN Accepted(NameOf(input[pos']))
          ELSE Rejected("invalid variable name", NameOf(input[pos']))]_vars

\* .A=v has been accepted on line 1 and 1A=v rejected on line 2
C9_Witness ==
    /\ Len(Variables) = 1 /\ Variables[1].Name = <<".", "A">>
    /\ parseRet = [done |-> TRUE, envFile |-> FALSE,
                   err |-> <<[what |-> "invalid variable name", line |-> 2,
                              text |-> <<"1", "A">>]>>]

ReadsNoSeparator ==
    ReadsLine /\ Meaningful(input[pos']) /\ ~HasSeparator(Unexported(input[pos']))

\* the names declared on the lines before the one being read
DeclaredNames == { Variables[i].Name : i \in 1..Len(Variables) }

\* C10: a line (neither blank nor a comment) with neither = nor : makes Parse
\* fail with its 1-based line number, unless it is an "export NAME" line whose
\* NAME was declared on an earlier line of the same input: then the line is
\* skipped and adds no variable. "export NAME" for a name not declared earlier
\* (also when it is declared only later) is an error.
C10_NoSeparator ==
    [][ReadsNoSeparator =>
          LET l == input[pos']
          IN  IF HasPrefix(l, EXPORT)
              THEN IF TrimSpace(Unexported(l)) \in DeclaredNames
                   THEN /\ Variables' = Variables /\ parseRet' = parseRet
                        /\ pc' = "scan" /\ pending' = pending
                   ELSE Rejected("has an unset variable", TrimSpace(Unexported(l)))
              ELSE Rejected("no separator found in line", l)]_vars

\* A=v, export A: the second line has been skipped and Parse has returned the EnvFile
C10_Witness ==
    /\ parseRet.envFile
    /\ Len(input) = 2 /\ input[1] = Decl(nA, <<"v">>) /\ input[2] = EXPORT \o nA
    /\ Len(Variables) = 1

\* ------------------------------------------------------------------------
\* Properties of the Variables Parse builds
\* ------------------------------------------------------------------------

\* a Variable is appended in this step
AppendsVariable == Len(Variables') = Len(Variables) + 1

\* the number of line feeds in a text
RECURSIVE LineFeeds(_)
LineFeeds(text) ==
    IF text = << >> THEN 0
    ELSE (IF Head(text) = "\n" THEN 1 ELSE 0) + LineFeeds(Tail(text))

\* The first physical line of the declaration that is completed in this step:
\* the line just read by the outer loop, or, for a multi-line value, the line
\* read before the continuation lines (one line feed was written per
\* continuation line read before this step).
FirstPhysicalLine ==
    IF pc = "scan" THEN pos' ELSE pos - LineFeeds(pending.multilineValue)

\* C11 as stated: the Location of every parsed Variable is the 1-based number
\* of the first physical line of its declaration, also when the declaration is
\* a quoted value that continues over several physical lines.
C11_AsStated ==
    [][AppendsVariable => Last(Variables').Location = Location(FirstPhysicalLine)]_vars

\* C12 as stated: immediately after a successful Parse and before any Resolve,
\* every Variable of the EnvFile has Value equal to RawValue and an empty
\* Expanded map.
C12_AsStated ==
    (parseRet.envFile /\ returns = << >>) =>
        \A i \in 1..Len(Variables) :
            Variables[i].Value = Variables[i].RawValue /\ Variables[i].Expanded = EmptyMap

\* a continuation line of a multi-line value is read in this step
ReadsContinuation == pc = "multiline" /\ pos' = pos + 1

\* the line holds a closing quote: the quote character, for a double quote not
\* right after a backslash
Closes(l, q) ==
    \E p \in 1..Len(l) : l[p] = q /\ ~(q = "\"" /\ p > 1 /\ l[p - 1] = "\\")

\* the lines of the value read so far, joined with the line just read
Joined == pending.multilineValue \o <<"\n">> \o input[pos']

\* the text between the quotes when the text ends with the quote it opens with
StripQuotes(t) ==
    IF Len(t) >= 2 /\ t[1] \in {"\"", "'"} /\ t[Len(t)] = t[1]
    THEN LET inner == SubSeq(t, 2, Len(t) - 1)
         IN  IF t[1] = "\"" /\ \E p \in 1..Len(inner) : inner[p] = "\\"
             THEN unescapeDoubleQuoted(inner) ELSE inner
    ELSE t

\* B="w /  y" / A=v : lines 1 and 2 are one declaration, line 3 is the next one
TwoDeclarations ==
    (/\ parseRet.envFile
     /\ input = << Decl(nB, <<"\"", "w">>), <<" ", "y", "\"">>, Decl(nA, <<"v">>) >>)
    => /\ Len(Variables) = 2
       /\ Variables[1].Name = nB /\ Variables[1].RawValue = <<"w", "\n", " ", "y">>
       /\ Variables[1].Quoted = "DoubleQuoted"
       /\ Variables[2].Name = nA /\ Variables[2].RawValue = <<"v">>

\* C13: a quoted value whose closing quote is not on its first physical line
\* is continued over the following physical lines, joined with a line feed,
\* until the line holding the closing quote; the embedded newlines and the
\* leading indentation of the continuation lines are kept verbatim in the
\* value; the line after the closing quote is read as the next declaration.
C13_MultiLineValue ==
    /\ []TwoDeclarations
    /\ [][ReadsContinuation =>
             IF Closes(input[pos'], pending.quoteChar)
             THEN /\ AppendsVariable
                  /\ SubSeq(Variables', 1, Len(Variables)) = Variables
                  /\ Last(Variables').Name = pending.name
                  /\ Last(Variables').RawValue = StripQuotes(Joined)
                  /\ pc' = "scan" /\ pending' = NoPending
             ELSE /\ Variables' = Variables
                  /\ pc' = "multiline"
                  /\ pending' = [pending EXCEPT !.multilineValue = Joined]]_vars

\* B='w /   x /  y' has been read as one declaration with two line feeds
C13_Witness ==
    /\ parseRet.envFile
    /\ Len(input) = 3 /\ Len(Variables) = 1
    /\ Variables[1].Quoted = "Quoted"
    /\ Variables[1].RawValue = <<"w", "\n", " ", " ", "x", "\n", " ", "y">>

\* ------------------------------------------------------------------------
\* Escaped dollar signs (checked under SpecEscape)
\* ------------------------------------------------------------------------

\* a piece that starts with an escaped dollar sign
IsEscape(token) == Len(token) >= 2 /\ token[1] = "\\" /\ token[2] = "$"

\* what a piece stands for: an escape for itself without the backslash, a
\* reference for the value of the variable, other text for itself
Meaning(token) ==
    IF IsEscape(token) THEN Tail(token)
    ELSE IF token \in PlainForms(nB) THEN (IF IsSet(nB) THEN ValueOf(nB) ELSE << >>)
    ELSE token

Meanings(ts) == Concat([k \in 1..Len(ts) |-> Meaning(ts[k])])

\* the provenance the references among the pieces leave
Referenced(ts) ==
    IF IsSet(nB) /\ \E k \in 1..Len(ts) : ts[k] \in PlainForms(nB) THEN Credit(nB) ELSE EmptyMap

\* C14: escaped dollar signs never trigger expansion. Every \$ of the raw
\* value gives one literal $ in the final value, both characters are consumed,
\* no lookup is made and no provenance entry is added, whether a name or
\* {NAME} follows; the references beside it expand as usual.
C14_EscapedDollar ==
    (Returned /\ exIn.op = <<"\\">>) =>
        /\ Out.err = << >>
        /\ Out.val = Meanings(exIn.tokens)
        /\ Out.exp = Referenced(exIn.tokens)

\* B is w, and \$B/\${B} has come out as $B/${B} with no provenance
C14_Witness ==
    /\ Returned /\ exIn.op = <<"\\">>
    /\ exIn.value = <<"\\", "$", "B", "/", "\\", "$", "{", "B", "}">>
    /\ NonEmpty(nB)
    /\ Out.val = <<"$", "B", "/", "$", "{", "B", "}">>
    /\ Out.exp = EmptyMap

\* ------------------------------------------------------------------------
\* Properties of Explain (checked under SpecExplain)
\* ------------------------------------------------------------------------

\* Explain returns in this step
ExplainReturns == explained' # explained

\* the names of the Explain inputs, in lexicographic order
NameOrder == <<nA, nB, nC>>

\* the text holds the reference $name
Occurs(text, name) ==
    \E p \in 1..Len(text) :
        /\ p + Len(name) <= Len(text)
        /\ text[p] = "$"
        /\ SubSeq(text, p + 1, p + Len(name)) = name

\* the names the raw value of declaration i refers to and finds declared before it
Consulted(Vs, i) ==
    { NameOrder[k] : k \in { k \in 1..Len(NameOrder) :
                               /\ Occurs(Vs[i].RawValue, NameOrder[k])
                               /\ DeclaredBefore(Vs, i, NameOrder[k]) # {} } }

\* the names of a set in lexicographic order
RECURSIVE InOrder(_, _)
InOrder(names, k) ==
    IF k > Len(NameOrder) THEN << >>
    ELSE (IF NameOrder[k] \in names THEN <<NameOrder[k]>> ELSE << >>) \o InOrder(names, k + 1)

\* the first declaration of a name
FirstDeclared(name) ==
    CHOOSE i \in 1..Len(Variables) :
        Variables[i].Name = name /\ \A j \in 1..(i - 1) : Variables[j].Name # name

\* the last declaration of a name
LastDeclared(name) ==
    CHOOSE i \in 1..Len(Variables) :
        Variables[i].Name = name /\ \A j \in (i + 1)..Len(Variables) : Variables[j].Name # name

Declared(name) == \E i \in 1..Len(Variables) : Variables[i].Name = name

\* after Resolve: one entry per name the raw value consulted, at its Location
DirectContributors ==
    expanded =>
        \A i \in 1..Len(Variables) :
            /\ DOMAIN Variables[i].Expanded = Consulted(Variables, i)
            /\ \A n \in Consulted(Variables, i) :
                  Variables[i].Expanded[n] = Variables[LastBefore(Variables, i, n)].Location

\* C15: after Resolve the provenance of a variable holds exactly one entry per
\* distinct name that its own raw value consulted successfully (direct
\* contributors only, never transitive ones), each with the contributor's
\* Location; Explain lists these entries sorted lexicographically by name as
\* name=value at location, and omits the list when the provenance is empty.
C15_Provenance ==
    /\ []DirectContributors
    /\ [][(ExplainReturns /\ expanded /\ Declared(explained'.name)) =>
             LET v   == Variables[FirstDeclared(explained'.name)]
                 out == explained'.out
             IN  /\ out.found
                 /\ [k \in 1..Len(out.lines) |-> out.lines[k].name]
                        = InOrder(DOMAIN v.Expanded, 1)
                 /\ \A k \in 1..Len(out.lines) :
                        out.lines[k].at = v.Expanded[out.lines[k].name]
                 /\ out.ExpandedFrom <=> (v.Expanded # EmptyMap)]_vars

\* A=1, B=$A, C=$B$A$A resolved: Explain(C) lists A, then B, one line each
C15_Witness ==
    /\ expanded
    /\ explained.name = nC /\ explained.out.found
    /\ Len(Variables) = 3 /\ Variables[3].RawValue = <<"$", "B", "$", "A", "$", "A">>
    /\ Len(explained.out.lines) = 2
    /\ explained.out.lines[1].name = nA /\ explained.out.lines[2].name = nB

\* nothing but the result of Explain changes
OnlyExplainedChanges ==
    UNCHANGED <<parseVars, Variables, resolveVars, expandVars, sources, lookups, found>>

\* some name is declared twice, with different raw values
DeclaredTwice(name) ==
    /\ Declared(name)
    /\ FirstDeclared(name) # LastDeclared(name)
    /\ Variables[FirstDeclared(name)].RawValue # Variables[LastDeclared(name)].RawValue

\* C16: the map Resolve returns holds, for every declared name, the Value of
\* the last declaration of that name; Explain(name) reports the record of the
\* first declaration of the name; for an undeclared name Explain returns the
\* fixed not-found marker; Explain changes no state.
C16_Duplicates ==
    /\ [][(ResolveReturns /\ Last(returns').err = << >>) =>
             LET map == Last(returns').map[1]
             IN  /\ DOMAIN map = { Variables'[i].Name : i \in 1..Len(Variables') }
                 /\ \A i \in 1..Len(Variables') :
                        (\A j \in (i + 1)..Len(Variables') :
                              Variables'[j].Name # Variables'[i].Name)
                           => map[Variables'[i].Name] = Variables'[i].Value]_vars
    /\ [][ExplainReturns =>
             /\ OnlyExplainedChanges
             /\ IF Declared(explained'.name)
                THEN LET v   == Variables[FirstDeclared(explained'.name)]
                         out == explained'.out
                     IN  /\ out.found
                         /\ out.Variable = v.Name
                         /\ out.Location = v.Location
                         /\ out.RawValue = v.RawValue
                         /\ out.FinalValue = v.Value
                ELSE explained'.out = [found |-> FALSE, text |-> "Variable not found"]]_vars

\* A=1, A=2 resolved: the map holds A=2, Explain(A) reports the record of A=1
C16_Witness ==
    /\ expanded /\ returns # << >> /\ Last(returns).err = << >>
    /\ DeclaredTwice(nA)
    /\ Last(returns).map[1][nA] = Variables[LastDeclared(nA)].Value
    /\ Last(returns).map[1][nA] # Variables[FirstDeclared(nA)].Value
    /\ explained.name = nA /\ explained.out.found
    /\ explained.out.Location = Variables[FirstDeclared(nA)].Location
    /\ explained.out.FinalValue = Variables[FirstDeclared(nA)].Value

\* C17: in a contributor line name=value at location of Explain, value is the
\* Value the last declaration of that name in the whole file has now, not the
\* value that was substituted when the explained variable was expanded;
\* location is the Location stored when the name was looked up, that of the
\* declaration consulted.
C17_ContributorLine ==
    [][(ExplainReturns /\ Declared(explained'.name)) =>
          LET idx == FirstDeclared(explained'.name)
              out == explained'.out
          IN  \A k \in 1..Len(out.lines) :
                 LET line == out.lines[k]
                 IN  /\ Declared(line.name)
                     /\ line.value = Variables[LastDeclared(line.name)].Value
                     /\ DeclaredBefore(Variables, idx, line.name) # {}
                     /\ line.at = Variables[LastBefore(Variables, idx, line.name)].Location]_vars

\* A=1, B=$A, A=2 resolved: B holds 1, and Explain(B) prints A=2 at :1
C17_Witness ==
    /\ expanded
    /\ Len(Variables) = 3
    /\ Variables[1].Name = nA /\ Variables[2].Name = nB /\ Variables[3].Name = nA
    /\ explained.name = nB /\ explained.out.found
    /\ explained.out.FinalValue = <<"1">>
    /\ Len(explained.out.lines) = 1
    /\ explained.out.lines[1] = [name |-> nA, value |-> <<"2">>, at |-> Location(1)]

\* ------------------------------------------------------------------------
\* Cancellation (checked under SpecMultiline)
\* ------------------------------------------------------------------------

\* Parse reads a physical line in this step, in either loop
ReadsPhysicalLine == pos' = pos + 1

\* C18: Parse checks the cancellation signal for every physical line it reads,
\* the continuation lines of a multi-line quoted value included: a line read
\* with the signal set makes Parse return the cancellation reason with no
\* EnvFile and no new Variable, so that no line is read after it.
C18_AsStated ==
    [][(ReadsPhysicalLine /\ ctxDone) =>
          /\ parseRet' = [done |-> TRUE, envFile |-> FALSE, err |-> <<Canceled>>]
          /\ Variables' = Variables]_vars

\* ------------------------------------------------------------------------
\* CompositeLookup (checked under SpecLookup)
\* ------------------------------------------------------------------------

\* Lookup returns in this step
LookupReturns == found' # found

\* source i is asked before source j: higher priority first, sources of equal
\* priority in the order they were passed
AskedBefore(i, j) ==
    \/ sources[i].Priority > sources[j].Priority
    \/ sources[i].Priority = sources[j].Priority /\ i < j

\* the sources that find the name
Hits(name) == { i \in 1..Len(sources) : name \in DOMAIN sources[i].Lookup }

\* C19: a composite lookup asks its sources in descending priority, sources of
\* equal priority in the order they were passed at construction, and returns
\* the result of the first source that finds the name; it reports not found
\* only when every source misses.
C19_AsStated ==
    [][LookupReturns =>
          IF Hits(found'.name) = {}
          THEN ~found'.ok /\ found'.v = << >>
          ELSE LET first == CHOOSE i \in Hits(found'.name) :
                                \A j \in Hits(found'.name) \ {i} : AskedBefore(i, j)
               IN  found'.ok /\ found'.v = <<sources[first].Lookup[found'.name]>>]_vars

\* ------------------------------------------------------------------------
\* Comment lines (checked under SpecSyntax)
\* ------------------------------------------------------------------------

\* the line is empty, or its first character that is not a space is #
EmptyOrComment(line) ==
    \/ line = << >>
    \/ \E p \in 1..Len(line) : line[p] = "#" /\ \A q \in 1..(p - 1) : line[q] = " "

\* C20: Parse skips every physical line that is empty or whose first non-space
\* character is #: the line adds no Variable and raises no error, whatever
\* follows the #, and it counts for the line numbers of later lines.
C20_AsStated ==
    [][(ReadsLine /\ EmptyOrComment(input[pos'])) =>
          /\ Variables' = Variables
          /\ parseRet' = parseRet
          /\ pc' = "scan"
          /\ lineNumber' = lineNumber + 1]_vars

\* ------------------------------------------------------------------------
\* Brace matching (checked under SpecBrace)
\* ------------------------------------------------------------------------

\* the text with every $B and ${B} replaced by the value of B
RECURSIVE SubstB(_)
SubstB(text) ==
    LET vB == IF IsSet(nB) THEN ValueOf(nB) ELSE << >>
    IN  IF text = << >> THEN << >>
        ELSE IF HasPrefix(text, Braced(nB))
             THEN vB \o SubstB(SubSeq(text, Len(Braced(nB)) + 1, Len(text)))
        ELSE IF HasPrefix(text, <<"$">> \o nB)
             THEN vB \o SubstB(SubSeq(text, Len(nB) + 2, Len(text)))
        ELSE <<Head(text)>> \o SubstB(Tail(text))

\* the text refers to B
RefersToB(text) == \E p \in 1..Len(text) : text[p] = "$"

\* C21: the } that closes a ${ is found by counting only nested ${ as depth
\* increases and } as decreases, so that a plain { inside the braces does not
\* change which } closes the reference: in pre ${A-body} post the reference
\* ends at the } after the body, whether the body holds a plain { or not. A ${
\* with no matching close is not an error: ${ is emitted literally and the
\* rest of the text is still scanned for references.
C21_AsStated ==
    (Returned /\ exIn.op = <<"{">>) =>
        /\ Out.err = << >>
        /\ IF exIn.closed
           THEN IF IsSet(nA)
                THEN /\ Out.val = exIn.pre \o ValueOf(nA) \o exIn.post
                     /\ Out.exp = Credit(nA)
                ELSE /\ Out.val = exIn.pre \o SubstB(exIn.text) \o exIn.post
                     /\ Out.exp = (IF IsSet(nB) /\ RefersToB(exIn.text)
                                   THEN Credit(nB) ELSE EmptyMap)
           ELSE /\ Out.val = exIn.pre \o <<"$", "{">> \o SubstB(exIn.text)
                /\ Out.exp = (IF IsSet(nB) /\ RefersToB(exIn.text)
                              THEN Credit(nB) ELSE EmptyMap)

\* ------------------------------------------------------------------------
\* Quoted values (checked under SpecQuote)
\* ------------------------------------------------------------------------

\* the trimmed text after the separator of a declaration line
ValuePart(l) ==
    LET u   == Unexported(l)
        sep == CHOOSE p \in 1..Len(u) :
                   u[p] \in {"=", ":"} /\ \A q \in 1..(p - 1) : u[q] \notin {"=", ":"}
    IN  TrimSpace(SubSeq(u, sep + 1, Len(u)))

\* position c of the value holds a closing quote: the opening quote again,
\* for a double quote not right after a backslash
ClosesAt(v, c) == v[c] = v[1] /\ (v[1] = "\"" => v[c - 1] # "\\")

\* the value begins with a quote and the quote is closed on the line
HasClosedQuote(l) ==
    /\ HasSeparator(l)
    /\ ValuePart(l) # << >>
    /\ ValuePart(l)[1] \in {"\"", "'"}
    /\ \E c \in 2..Len(ValuePart(l)) : ClosesAt(ValuePart(l), c)

\* the first closing quote of the value
FirstClose(v) == CHOOSE c \in 2..Len(v) : ClosesAt(v, c) /\ \A d \in 2..(c - 1) : ~ClosesAt(v, d)

\* the text with \" and \\ replaced by what they stand for
RECURSIVE EscapesApplied(_)
EscapesApplied(t) ==
    IF t = << >> THEN << >>
    ELSE IF Len(t) >= 2 /\ t[1] = "\\" /\ t[2] \in {"\"", "\\"}
         THEN <<t[2]>> \o EscapesApplied(Tail(Tail(t)))
    ELSE <<Head(t)>> \o EscapesApplied(Tail(t))

\* C22: a value that begins with " or ' ends at the first matching closing
\* quote that is not escaped (a double quote right after a backslash is
\* escaped; a single-quoted value ends at the first '); RawValue is the text
\* strictly between the opening quote and that closing quote, with the
\* escapes processed for double quotes and verbatim for single quotes, and
\* QuoteStyle records the kind of quote.
C22_AsStated ==
    [][(ReadsLine /\ HasClosedQuote(input[pos'])) =>
          LET v     == ValuePart(input[pos'])
              inner == SubSeq(v, 2, FirstClose(v) - 1)
          IN  /\ AppendsVariable
              /\ Last(Variables').RawValue = (IF v[1] = "\"" THEN EscapesApplied(inner) ELSE inner)
              /\ Last(Variables').Quoted = (IF v[1] = "\"" THEN "DoubleQuoted" ELSE "Quoted")]_vars

\* ------------------------------------------------------------------------
\* Termination of expandString (checked under SpecScan)
\* ------------------------------------------------------------------------

\* t is a part of v and shorter than v
StrictSubstring(t, v) ==
    /\ Len(t) < Len(v)
    /\ \E p \in 1..(Len(v) + 1) : p + Len(t) - 1 <= Len(v) /\ SubSeq(v, p, p + Len(t) - 1) = t

\* the calls below the innermost one are as they were
CallersWait(d) == \A k \in 1..(d - 1) : frames'[k] = frames[k]

\* the innermost call goes on at a later position of the same value
Advances ==
    LET d == Len(frames)
    IN  /\ Len(frames') = d
        /\ CallersWait(d)
        /\ frames'[d].value = frames[d].value
        /\ frames'[d].i > frames[d].i

\* the innermost call calls expandString on a text inside the braces it has
\* found ahead of its position
Descends ==
    LET d == Len(frames)
    IN  /\ Len(frames') = d + 1
        /\ CallersWait(d)
        /\ frames'[d].value = frames[d].value /\ frames'[d].i = frames[d].i
        /\ frames'[d].endIdx > frames[d].i /\ frames'[d].endIdx <= Len(frames[d].value)
        /\ frames'[d + 1].i = 1
        /\ StrictSubstring(frames'[d + 1].value,
                           SubSeq(frames[d].value, frames[d].i, frames'[d].endIdx))

\* the innermost call returns and its caller goes on at a later position
Returns ==
    LET d == Len(frames)
    IN  /\ Len(frames') = d - 1
        /\ CallersWait(d - 1)
        /\ d > 1 => /\ frames'[d - 1].value = frames[d - 1].value
                    /\ frames'[d - 1].i > frames[d - 1].i
        /\ d = 1 => scanRet' = "ok"

\* an error ends every call
Aborts == frames' = << >> /\ scanRet' = "err"

\* every position is inside the value or right after it
InRange == \A k \in 1..Len(frames) : frames[k].i \in 1..(Len(frames[k].value) + 1)

\* the call has returned what expandString returns: a result or an error
ReturnsAsExpandString ==
    scanRet # "" =>
        /\ frames = << >>
        /\ (scanRet = "err") <=> (expandString(exIn.value, exIn.vars).err # << >>)

\* C23: expansion terminates on every finite raw value. Each iteration of the
\* scan of expandString moves the position forward by at least one character,
\* every recursive call is made on a strictly shorter part of the caller's
\* input, found ahead of the caller's position, and the caller goes on after
\* it; so every call returns, with a result or an error.
C23_Terminates ==
    /\ [][Advances \/ Descends \/ Returns \/ Aborts]_vars
    /\ [](InRange /\ ReturnsAsExpandString)
    /\ <>(scanRet # "")

\* ${A-${B-$A}} with A and B unset: three calls deep, the innermost at its end
C23_Witness ==
    /\ Len(frames) = 3
    /\ frames[1].value = Braced(nA \o <<"-">> \o Braced(nB \o <<"-", "$", "A">>))
    /\ frames[2].value = Braced(nB \o <<"-", "$", "A">>)
    /\ frames[3].value = <<"$", "A">>
    /\ frames[3].i > Len(frames[3].value)

\* ------------------------------------------------------------------------
\* References to accepted names (checked under SpecRef)
\* ------------------------------------------------------------------------

\* declaration i is unquoted and its raw value is ${N}, N declared before it
RefersTo(i, N) ==
    /\ Variables[i].Quoted = "Unquoted"
    /\ Variables[i].RawValue = Braced(N)
    /\ DeclaredBefore(Variables, i, N) # {}

\* C24: every variable that Parse accepts can be referenced from a later
\* declaration: for every valid name N, names with . or - included, declared
\* with value v, a later unquoted declaration X=${N} resolves X to v and
\* records N in the provenance of X.
C24_AsStated ==
    expanded =>
        \A i \in 1..Len(Variables) : \A N \in RefNames :
            RefersTo(i, N) =>
                LET d == Variables[LastBefore(Variables, i, N)]
                IN  /\ Variables[i].Value = d.Value
                    /\ N \in DOMAIN Variables[i].Expanded
                    /\ Variables[i].Expanded[N] = d.Location

====
